---- MODULE Spec2Model ----
(***************************************************************************)
(* Time-series accounting and error control of the Womersley cylinder      *)
(* problem: problems/general_problem.py (GeneralProblem) and                *)
(* problems/womersley_cylinder.py (Problem).                                *)
(*                                                                         *)
(* Scalars.  Every number the accounting handles is a rational or the      *)
(* square root of a rational, so a scalar is kept exactly as the record     *)
(* [sg, n, d] standing for sg * sqrt(n / d), in lowest terms.               *)
(* Times are kept in microseconds.                                          *)
(***************************************************************************)
EXTENDS Integers, Sequences, FiniteSets, TLC

\* ------------------------------------------------------------------ bounds
MaxSteps == 3

MaxStepsTime == 10

MaxCalls == 4

MaxStepsCycle == 20

MaxStepsRun == 2

MaxStepsProfile == 1

MaxQuarters == 4

\* ------------------------------------------------------- program constants
divergence_treshold == 10

UsPerSecond == 1000000

UsPerMs == 1000

\* ----------------------------------------------------------- exact scalars
RECURSIVE GCD(_, _)
GCD(a, b) == IF b = 0 THEN a ELSE GCD(b, a % b)

Abs(i) == IF i < 0 THEN -i ELSE i

Sign(i) == IF i < 0 THEN -1 ELSE IF i = 0 THEN 0 ELSE 1

\* sg * sqrt(n / d), n >= 0, d > 0, reduced
Root(sg, n, d) ==
    IF n = 0 \/ sg = 0 THEN [sg |-> 0, n |-> 0, d |-> 1]
    ELSE LET g == GCD(n, d) IN [sg |-> sg, n |-> n \div g, d |-> d \div g]

\* the rational num / den (den > 0) as a scalar
Frac(num, den) == Root(Sign(num), num * num, den * den)

FromInt(i) == Frac(i, 1)

\* math.sqrt of the non-negative rational num / den
sqrt(num, den) == Root(1, num, den)

\* x * x as a rational <<num, den>>
Square(x) == <<x.n, x.d>>

\* a / b for b # 0
Quot(a, b) == Root(a.sg * b.sg, a.n * b.d, a.d * b.n)

\* a > k for an integer k >= 0
GreaterThanInt(a, k) == a.sg = 1 /\ a.n > k * k * a.d

\* a >= k for an integer k >= 0 (used only to state a defect of the comparison)
AtLeastInt(a, k) == (k = 0 /\ a.sg >= 0) \/ (a.sg = 1 /\ a.n >= k * k * a.d)

\* Python 2 round() of the non-negative rational num / den, as an int:
\* halves are rounded away from zero
Round(num, den) == (2 * num + den) \div (2 * den)

\* Python slice seq[n0:n1] of a 0-based list kept as a 1-based sequence
Slice(seq, n0, n1) ==
    LET hi == IF n1 < Len(seq) THEN n1 ELSE Len(seq)
        cnt == IF hi > n0 THEN hi - n0 ELSE 0
    IN [i \in 1..cnt |-> seq[n0 + i]]

\* sum([i*i for i in seq]) as a rational <<num, den>>
RECURSIVE SumSquares(_)
SumSquares(seq) ==
    IF seq = <<>> THEN <<0, 1>>
    ELSE LET r == SumSquares(Tail(seq))
             h == Square(Head(seq))
             num == h[1] * r[2] + r[1] * h[2]
             den == h[2] * r[2]
             g == GCD(num, den)
         IN <<num \div g, den \div g>>

\* sqrt(sum([i*i for i in seq[n0:n1]]) / steps)
RootMeanSquare(seq, n0, n1, steps) ==
    LET s == SumSquares(Slice(seq, n0, n1)) IN sqrt(s[1], s[2] * steps)

\* sum([i*i for i in seq[n0:n1]]) / steps
MeanSquare(seq, n0, n1, steps) ==
    LET s == SumSquares(Slice(seq, n0, n1)) IN Frac(s[1], s[2] * steps)

\* ------------------------------------------------- registry of series
\* keys created by GeneralProblem.__init__ for every problem
BaseKeys == {"d", "d2", "pg", "pg2"}

\* keys GeneralProblem.__init__ adds when the problem has an analytic solution
AnalyticKeys ==
    {"u_L2", "u2L2", "u_L2test", "u2L2test", "u_H1", "u2H1", "u_H1test",
     "u2H1test", "apg", "av_norm_L2", "av_norm_H1", "ap_norm", "p", "pgE",
     "pgEA", "p2", "pgE2", "pgEA2"}

\* keys Problem.__init__ of the Womersley cylinder adds
WomersleyKeys ==
    {"u_H1w", "u2H1w", "av_norm_H1w", "a_force_wall", "a_force_wall_normal",
     "a_force_wall_shear", "force_wall", "force_wall_normal",
     "force_wall_shear"}

\* keys registered with an 'slist' (cycle aggregates)
SlistKeys ==
    {"d", "d2", "u_L2", "u2L2", "u_H1", "u2H1", "p", "pgE", "p2", "pgE2",
     "u_H1w", "u2H1w", "force_wall", "force_wall_normal", "force_wall_shear"}

\* keys registered with 'scale': self.scale_factor
ScaleKeys ==
    {"d", "d2", "pg", "pg2", "u_L2", "u2L2", "u_L2test", "u2L2test", "u_H1",
     "u2H1", "u_H1test", "u2H1test", "apg", "p", "pgE", "pgEA", "p2", "pgE2",
     "pgEA2", "u_H1w", "u2H1w"}

\* the 'norm' entry of a key: which normalisation list it shares
NormOf(key) ==
    CASE key \in {"pg", "pg2", "apg", "pgE", "pgEA", "pgE2", "pgEA2"} -> "pg"
      [] key \in {"u_L2", "u2L2"} -> "vel"
      [] key \in {"p", "p2"} -> "p"
      [] OTHER -> "none"

\* the 'relative' entry of a key: the key of its reference series
RelativeOf(key) ==
    CASE key \in {"u_L2", "u2L2"} -> "av_norm_L2"
      [] key \in {"u_H1", "u2H1"} -> "av_norm_H1"
      [] key \in {"u_H1w", "u2H1w"} -> "av_norm_H1w"
      [] key \in {"force_wall", "force_wall_normal", "force_wall_shear"}
           -> "a_force_wall"
      [] OTHER -> "none"

\* the keys of self.listDict of a problem
KeysOf(problem_code, has_analytic_solution) ==
    BaseKeys
      \cup (IF has_analytic_solution THEN AnalyticKeys ELSE {})
      \cup (IF problem_code = "WCYL" THEN WomersleyKeys ELSE {})

\* a freshly registered entry
NewEntry(key) ==
    IF key \in SlistKeys THEN [list |-> <<>>, slist |-> <<>>]
    ELSE [list |-> <<>>]

\* ------------------------------------------------------------------ state
VARIABLES
    conf,            \* what __init__/initialize fix for the run: problem_code,
                     \* has_analytic_solution, doErrControl, testErrControl,
                     \* dt (metadata['dt'], microseconds), stepsInSecond,
                     \* first (step number of the first update_time call)
    scale_factor,    \* self.scale_factor
    normalization,   \* vel_, pg_ and p_normalization_factor as fields vel, pg, p
    files,           \* the files report() has written: name -> content
    listDict,        \* self.listDict: key -> entry
    time_list,       \* self.time_list
    second_list,     \* self.second_list
    actual_time,     \* self.actual_time (microseconds)
    step_number,     \* self.step_number
    isWholeSecond,   \* self.isWholeSecond (None is kept as FALSE: only its truth is read)
    N0,              \* self.N0 (None is kept as 0: never read before it is set)
    N1,              \* self.N1
    analytic_v_norm, \* analytic_v_norm_L2, _H1, _H1w as fields L2, H1, H1w
    last_error,      \* self.last_error
    last_status_functional,
    pc,              \* the run: "run", "failed" (an exception left a call), "reported",
                     \* "fail_reported" (report_fail has run)
    exc,             \* the exception that ended the run, "" if none
    done,            \* calls made on the problem since the last update_time
    fields,          \* what the solver produced for the current step
    calls,           \* number of method calls made so far
    mesh,            \* prepare_real_mesh.py: the mesh loaded (its scale, 0 if none)
    edge_min,        \* prepare_real_mesh.py: edge_min
    edge_max,        \* prepare_real_mesh.py: edge_max
    tol,             \* prepare_real_mesh.py: tol
    facet_function,  \* prepare_real_mesh.py: facet_function, facet -> value
    todo,            \* the edges or facets the running loop has still to visit
    mpc,             \* prepare_real_mesh.py: "off" (not run), "edges", "facets", "written"
    precomputed,     \* the file of precomputed basis fields: name -> field
    ic,              \* self.ic: "zero" or "correct"
    bessel_parabolic, \* self.bessel_parabolic
    bessel_real,     \* self.bessel_real
    bessel_complex,  \* self.bessel_complex
    solution,        \* self.solution
    returned         \* what assemble_solution has returned to callers outside the
                     \* problem: time -> the field of the first call with that time

problemVars ==
    <<conf, scale_factor, normalization, files, listDict, time_list, second_list,
      actual_time, step_number, isWholeSecond, N0, N1, analytic_v_norm, last_error,
      last_status_functional, pc, exc, done, fields, calls>>

meshVars == <<mesh, edge_min, edge_max, tol, facet_function, todo, mpc>>

basisVars == <<precomputed, ic, bessel_parabolic, bessel_real, bessel_complex>>

profileVars == <<basisVars, solution, returned>>

vars == <<problemVars, meshVars, profileVars>>

\* ------------------------------------------------- values from outside
\* A velocity field is known to the accounting only through the functionals
\* the finite-element library returns for it:
\*   errL2sq   = assemble(inner(v - solution, v - solution) * dx)
\*   errSemisq = assemble(inner(grad(v - solution), grad(v - solution)) * dx)
\*   errH1w    = the wall H1 error, hdiv0 = norm(v, 'Hdiv0')
VExact == [errL2sq |-> 0, errSemisq |-> 0, errH1w |-> 0, hdiv0 |-> 0]

VOff == [errL2sq |-> 144, errSemisq |-> 256, errH1w |-> 2, hdiv0 |-> 2]

VBlown == [errL2sq |-> 100, errSemisq |-> 576, errH1w |-> 3, hdiv0 |-> 1]

\* a pressure field: its inflow/outflow means and its L2 error
PExact == [p_in |-> 0, p_out |-> 20, err |-> 0]

POff == [p_in |-> 0, p_out |-> 60, err |-> 2]

\* the wall-force errors compute_force assembles from velocity and pressure
FExact == [error_force |-> 0, error_f_normal |-> 0, error_f_shear |-> 0]

FOff == [error_force |-> 2, error_f_normal |-> 1, error_f_shear |-> 2]

\* what the solver hands over in one step: tentative and corrected velocity,
\* tentative and corrected pressure, and the force errors of the pair (u, p)
Solution(u2, u, p2, p, f) == [u2 |-> u2, u |-> u, p2 |-> p2, p |-> p, force |-> f]

Solutions ==
    {Solution(VExact, VExact, PExact, PExact, FExact),
     Solution(VOff, VOff, POff, POff, FOff),
     Solution(VOff, VBlown, PExact, POff, FOff)}

SolutionsTime == {Solution(VOff, VOff, POff, POff, FOff)}

SolutionsExact == {Solution(VExact, VExact, PExact, PExact, FExact)}

\* what the analytic solution of the current time yields: its velocity norms,
\* pressure norm and gradient, and its wall forces (all non-zero)
Analytics ==
    {[L2 |-> 1, H1 |-> 2, H1w |-> 1, pnorm |-> 1, pgrad |-> 1,
      force |-> 1, f_normal |-> 1, f_shear |-> 1],
     [L2 |-> 2, H1 |-> 2, H1w |-> 2, pnorm |-> 2, pgrad |-> 3,
      force |-> 2, f_normal |-> 1, f_shear |-> 1]}

AnalyticsTime ==
    {[L2 |-> 1, H1 |-> 2, H1w |-> 1, pnorm |-> 1, pgrad |-> 1,
      force |-> 1, f_normal |-> 1, f_shear |-> 1]}

NoAnalytic ==
    [L2 |-> 0, H1 |-> 0, H1w |-> 0, pnorm |-> 0, pgrad |-> 0,
     force |-> 0, f_normal |-> 0, f_shear |-> 0]

NoSolution == Solution(VExact, VExact, PExact, PExact, FExact)

\* -------------------------------------------------------- construction
\* 1.0 / metadata['dt'] rounded: GeneralProblem.initialize
StepsInSecond(dt) == Round(UsPerSecond, dt)

\* args.factor, the velocity scale factor of the run
Factor == 2

\* the state __init__ and initialize leave for a run
Conf(problem_code, error, dt, first) ==
    [problem_code |-> problem_code,
     has_analytic_solution |-> (problem_code = "WCYL"),
     doErrControl |-> (error # "noEC"),
     testErrControl |-> (error = "test"),
     MPI_rank |-> 0,
     fillsNormalization |-> (problem_code = "WCYL"),
     dt |-> dt,
     stepsInSecond |-> StepsInSecond(dt),
     first |-> first]

\* the same run as seen by the process of another MPI rank
OnRank(c, rank) == [c EXCEPT !.MPI_rank = rank]

\* the same run of a problem class whose initialize appends nothing to the
\* normalisation factors GeneralProblem.__init__ creates empty
Unnormalized(c) == [c EXCEPT !.fillsNormalization = FALSE]

\* the mesh preparation is a program of its own: not run beside a problem
NoMesh ==
    /\ mesh = 0
    /\ edge_min = FromInt(0)
    /\ edge_max = FromInt(0)
    /\ tol = FromInt(0)
    /\ facet_function = <<>>
    /\ todo = {}
    /\ mpc = "off"

\* the state of the problem after __init__ (initialized = FALSE) and after
\* initialize, which fills the normalisation factors
ProblemState(c, initialized) ==
    /\ conf = c
    /\ scale_factor = IF c.problem_code = "WCYL" THEN <<FromInt(Factor)>> ELSE <<>>
    /\ normalization =
         IF initialized /\ c.fillsNormalization
         THEN [vel |-> <<FromInt(2)>>, pg |-> <<FromInt(1)>>, p |-> <<FromInt(2)>>]
         ELSE [vel |-> <<>>, pg |-> <<>>, p |-> <<>>]
    /\ files = <<>>
    /\ listDict = [key \in KeysOf(c.problem_code, c.has_analytic_solution)
                     |-> NewEntry(key)]
    /\ time_list = <<>>
    /\ second_list = <<>>
    /\ actual_time = 0
    /\ step_number = 0
    /\ isWholeSecond = FALSE
    /\ N0 = 0
    /\ N1 = 0
    /\ analytic_v_norm = [L2 |-> FromInt(0), H1 |-> FromInt(0), H1w |-> FromInt(0)]
    /\ last_error = FromInt(0)
    /\ last_status_functional = FromInt(0)
    /\ pc = IF initialized THEN "run" ELSE "new"
    /\ exc = ""
    /\ done = {}
    /\ fields = [solution |-> NoSolution, analytic |-> NoAnalytic]
    /\ calls = 0

\* the state __init__ and initialize leave in the problem
ProblemInit(c) == ProblemState(c, TRUE)

\* ----------------------------------------------------- analytic profile
\* A discrete field is kept by its values at two nodes of the mesh, one on
\* the axis of the cylinder and one on the wall (r = R).  The values of the
\* precomputed fields are integers.  The analytic velocity is evaluated at
\* multiples of a quarter second, so every phase coefs_exp[idx] * pi * t is a
\* multiple of pi / 4 and a value of the assembled field is exactly
\* w + r * sqrt(2) / 2 with integers w and r, kept as the record [w, r].
Nodes == {"axis", "wall"}

Field(axis, wall) == [axis |-> axis, wall |-> wall]

Value(w, r) == [w |-> w, r |-> r]

Plus(a, b) == Value(a.w + b.w, a.r + b.r)

Scaled(k, a) == Value(k * a.w, k * a.r)

\* cos(k * pi / 4)
Cos(k) ==
    CASE k % 8 = 0 -> Value(1, 0)
      [] k % 8 \in {1, 7} -> Value(0, 1)
      [] k % 8 \in {2, 6} -> Value(0, 0)
      [] k % 8 \in {3, 5} -> Value(0, -1)
      [] k % 8 = 4 -> Value(-1, 0)

\* sin(k * pi / 4) = cos(k * pi / 4 - pi / 2)
Sin(k) == Cos(k + 6)

QuarterUs == UsPerSecond \div 4

\* coef * pi * t in units of pi / 4, for t a multiple of a quarter second
Phase(coef, t) == (coef * t) \div QuarterUs

\* defect: the frequency index k of the mode instead of 2 * k
coefs_exp_Halved == <<-4, -3, -2, -1, 1, 2, 3, 4>>

\* self.coefs_exp
coefs_exp == <<-8, -6, -4, -2, 2, 4, 6, 8>>

\* None, for a field or a list not yet set
None == "None"

\* the names of the fields load_precomputed_bessel_functions reads
FieldName(prefix, i) == prefix \o ToString(i)

FieldNames ==
    {"parab"} \cup {FieldName("real", i) : i \in 0..7}
              \cup {FieldName("imag", i) : i \in 0..7}

\* a file that holds the parabolic field and the real and imaginary part of
\* eight modes under these names
FileOf(parab, real, imag) ==
    [name \in FieldNames |->
       IF name = "parab" THEN parab
       ELSE LET i == CHOOSE j \in 0..7 :
                       name \in {FieldName("real", j), FieldName("imag", j)}
            IN IF name = FieldName("real", i) THEN real[i + 1] ELSE imag[i + 1]]

\* precomputed fields that vanish on the wall, and fields that do not
PrecomputedNoSlip ==
    FileOf(Field(3, 0), [i \in 1..8 |-> Field(i, 0)], [i \in 1..8 |-> Field(10 + i, 0)])

PrecomputedSlip ==
    FileOf(Field(3, 1), [i \in 1..8 |-> Field(i, 1)], [i \in 1..8 |-> Field(10 + i, i)])

\* the accounting is also run without the basis fields: the analytic
\* solution is then known through its functionals only (Analytics)
NoProfile ==
    /\ precomputed = <<>>
    /\ ic = "zero"
    /\ bessel_parabolic = None
    /\ bessel_real = <<>>
    /\ bessel_complex = <<>>
    /\ solution = None
    /\ returned = <<>>

\* the state a run of the accounting starts from
InitWith(c) == NoMesh /\ NoProfile /\ ProblemInit(c)

\* defect: the lists keep the Function the file is read into, not a copy of
\* it, so every field is the one read last
load_precomputed_bessel_functions_Aliased ==
    /\ bessel_parabolic' = precomputed[FieldName("imag", 7)]
    /\ bessel_real' = bessel_real \o [i \in 1..8 |-> precomputed[FieldName("imag", 7)]]
    /\ bessel_complex' = bessel_complex \o [i \in 1..8 |-> precomputed[FieldName("imag", 7)]]

\* Problem.load_precomputed_bessel_functions
load_precomputed_bessel_functions ==
    /\ bessel_parabolic' = precomputed["parab"]
    /\ bessel_real' =
         bessel_real \o [i \in 1..8 |-> precomputed[FieldName("real", i - 1)]]
    /\ bessel_complex' =
         bessel_complex \o [i \in 1..8 |-> precomputed[FieldName("imag", i - 1)]]

\* Function(self.solutionSpace), and the component sol.assign(Constant(("0.0",
\* "0.0", "0.0"))) leaves
ZeroField == [n \in Nodes |-> Value(0, 0)]

ZeroFunction == <<ZeroField, ZeroField, ZeroField>>

\* vector[dofs2] += k * c * field.vector().array()
AddTo(vector, k, c, field) ==
    [n \in Nodes |-> Plus(vector[n], Scaled(k * field[n], c))]

\* the loop of Problem.assemble_solution from mode idx on
RECURSIVE AddModes(_, _, _)
AddModes(vector, t, idx) ==
    IF idx > 8 THEN vector
    ELSE LET phase == Phase(coefs_exp[idx], t)
             withReal == AddTo(vector, Factor, Cos(phase), bessel_real[idx])
             withImag == AddTo(withReal, Factor, Scaled(-1, Sin(phase)),
                               bessel_complex[idx])
         IN AddModes(withImag, t, idx + 1)

\* Problem.assemble_solution: the field it returns
assemble_solution(t) ==
    <<ZeroField, ZeroField,
      AddModes(AddTo(ZeroField, Factor, Value(1, 0), bessel_parabolic), t, 1)>>

\* Problem.initialize
initialize ==
    /\ load_precomputed_bessel_functions
    /\ solution' = assemble_solution(0)'
    /\ normalization' =
         [vel |-> <<FromInt(2)>>, pg |-> <<FromInt(1)>>, p |-> <<FromInt(2)>>]

\* Problem.get_v_solution
get_v_solution(t) == assemble_solution(t)

\* Problem.get_initial_conditions, for a list of velocity functions
get_initial_conditions(function_list) ==
    [i \in 1..Len(function_list) |->
       IF ic = "correct" THEN assemble_solution(function_list[i].time)
       ELSE ZeroFunction]

\* womersleyBC.analytic_pressure_grad is not part of the sources at hand; it
\* is a closed form in t and the scale factor, built from the same eight
\* modes: a mean and, for each mode, a cosine and a sine term with
\* calibrated coefficients
PressureGradientCoefs ==
    [mean |-> 3, cos |-> <<1, 2, 3, 4, 4, 3, 2, 1>>, sin |-> <<4, 3, 2, 1, -1, -2, -3, -4>>]

RECURSIVE PressureGradientModes(_, _, _)
PressureGradientModes(t, idx, divisor) ==
    IF idx > 8 THEN Value(0, 0)
    ELSE LET phase == Phase(coefs_exp[idx], t) \div divisor IN
         Plus(Plus(Scaled(PressureGradientCoefs.cos[idx], Cos(phase)),
                   Scaled(-PressureGradientCoefs.sin[idx], Sin(phase))),
              PressureGradientModes(t, idx + 1, divisor))

\* defect: every mode at half its frequency
analytic_pressure_grad_HalfFrequency(factor, t) ==
    Scaled(factor, Plus(Value(PressureGradientCoefs.mean, 0),
                        PressureGradientModes(t, 1, 2)))

analytic_pressure_grad(factor, t) ==
    Scaled(factor, Plus(Value(PressureGradientCoefs.mean, 0),
                        PressureGradientModes(t, 1, 1)))

\* ------------------------------------------------------------ operations
\* the series an is_tent flag selects
KeyL2(is_tent) == IF is_tent THEN "u2L2" ELSE "u_L2"

KeyH1(is_tent) == IF is_tent THEN "u2H1" ELSE "u_H1"

KeyL2test(is_tent) == IF is_tent THEN "u2L2test" ELSE "u_L2test"

KeyH1test(is_tent) == IF is_tent THEN "u2H1test" ELSE "u_H1test"

\* defect: the divergence of either variant goes to the corrected series
KeyDiv_Corrected(is_tent) == "d"

KeyDiv(is_tent) == IF is_tent THEN "d2" ELSE "d"

\* defect: the wall error of either variant goes to the corrected series
KeyH1w_Corrected(is_tent) == "u_H1w"

KeyH1w(is_tent) == IF is_tent THEN "u2H1w" ELSE "u_H1w"

AppendList(ld, key, x) == [ld EXCEPT ![key].list = Append(@, x)]

AppendSlist(ld, key, x) == [ld EXCEPT ![key].slist = Append(@, x)]

\* the aggregate the error series append at a whole second
CycleValue(ld, key) ==
    RootMeanSquare(ld[key].list, N0, N1, conf.stepsInSecond)

\* defect: the test without its t > 0.5 part
ClosesCycle_NoHalfSecond(t) == Round(t, UsPerMs) % 1000 = 0

\* the test of Problem.update_time for a step that closes a cycle
ClosesCycle(t) == t > UsPerSecond \div 2 /\ Round(t, UsPerMs) % 1000 = 0

\* defect: a window that starts one entry late
WindowStart_OneLate(seconds) == (seconds - 1) * conf.stepsInSecond + 1

\* the window of list indices Problem.update_time sets for a closed second
WindowStart(seconds) == (seconds - 1) * conf.stepsInSecond

WindowEnd(seconds) == seconds * conf.stepsInSecond

\* GeneralProblem.update_time followed by Problem.update_time
update_time(t, k, an) ==
    /\ actual_time' = t
    /\ step_number' = k
    /\ time_list' = Append(time_list, t)
    /\ IF conf.problem_code = "WCYL"
       THEN /\ IF ClosesCycle(t)
               THEN LET seconds == Round(t, UsPerSecond) IN
                    /\ isWholeSecond' = TRUE
                    /\ second_list' = Append(second_list, seconds)
                    /\ N1' = WindowEnd(seconds)
                    /\ N0' = WindowStart(seconds)
               ELSE /\ isWholeSecond' = FALSE
                    /\ UNCHANGED <<second_list, N0, N1>>
            /\ analytic_v_norm' = [L2 |-> FromInt(an.L2), H1 |-> FromInt(an.H1),
                                   H1w |-> FromInt(an.H1w)]
            /\ listDict' =
                 AppendList(AppendList(AppendList(listDict,
                     "av_norm_L2", FromInt(an.L2)),
                     "av_norm_H1", FromInt(an.H1)),
                     "av_norm_H1w", FromInt(an.H1w))
       ELSE UNCHANGED <<isWholeSecond, second_list, N0, N1, analytic_v_norm,
                        listDict>>
    /\ solution' = IF bessel_real = <<>> THEN solution ELSE assemble_solution(t)
    /\ UNCHANGED <<conf, scale_factor, normalization, files, last_error, last_status_functional,
                   exc>>

\* GeneralProblem.compute_div
compute_div(is_tent, velocity) ==
    LET key == KeyDiv(is_tent)
        ld1 == AppendList(listDict, key, FromInt(velocity.hdiv0))
    IN
    /\ listDict' =
         IF isWholeSecond
         THEN AppendSlist(ld1, key,
                  MeanSquare(ld1[key].list, N0, N1, conf.stepsInSecond))
         ELSE ld1
    /\ UNCHANGED <<conf, scale_factor, normalization, files, time_list, second_list, actual_time,
                   step_number, isWholeSecond, N0, N1, analytic_v_norm,
                   last_error, last_status_functional, exc>>

\* defect: a stop already at the threshold
Exceeds_AtThreshold(err) == AtLeastInt(err, divergence_treshold)

\* the relative H1 error is above the stopping threshold
Exceeds(err) == GreaterThanInt(err, divergence_treshold)

\* GeneralProblem.compute_err: the registry it leaves, the relative error it
\* stores, and whether it raises
BaseComputeErr(is_tent, velocity) ==
    LET kL2 == KeyL2(is_tent)
        kH1 == KeyH1(is_tent)
        kL2test == KeyL2test(is_tent)
        kH1test == KeyH1test(is_tent)
        errorL2 == sqrt(velocity.errL2sq, 1)
        errorH1 == sqrt(velocity.errL2sq + velocity.errSemisq, 1)
        ld1 == AppendList(AppendList(listDict, kL2, errorL2), kH1, errorH1)
        ld2 == IF conf.testErrControl
               THEN AppendList(AppendList(ld1, kL2test, errorL2), kH1test, errorH1)
               ELSE ld1
        ld3 == IF isWholeSecond
               THEN AppendSlist(AppendSlist(ld2, kL2, CycleValue(ld2, kL2)),
                                kH1, CycleValue(ld2, kH1))
               ELSE ld2
        err == Quot(errorH1, analytic_v_norm.H1)
    IN IF conf.doErrControl /\ conf.has_analytic_solution
       THEN [ld |-> ld3, last |-> err, status |-> err, raised |-> Exceeds(err)]
       ELSE [ld |-> listDict, last |-> last_error,
             status |-> last_status_functional, raised |-> FALSE]

\* Problem.compute_err of the Womersley cylinder (GeneralProblem.compute_err
\* alone for a problem that does not override it)
compute_err(is_tent, velocity) ==
    LET base == BaseComputeErr(is_tent, velocity)
        kH1w == KeyH1w(is_tent)
        ld1 == AppendList(base.ld, kH1w, FromInt(velocity.errH1w))
        ld2 == IF isWholeSecond
               THEN AppendSlist(ld1, kH1w, CycleValue(ld1, kH1w))
               ELSE ld1
    IN
    /\ last_error' = base.last
    /\ last_status_functional' = base.status
    /\ exc' = IF base.raised THEN "RuntimeError: STOPPED: Failed divergence test!"
              ELSE exc
    /\ listDict' = IF base.raised \/ conf.problem_code # "WCYL"
                   THEN base.ld
                   ELSE ld2
    /\ UNCHANGED <<conf, scale_factor, normalization, files, time_list, second_list, actual_time,
                   step_number, isWholeSecond, N0, N1, analytic_v_norm>>

\* Problem.save_pressure: the series part (after GeneralProblem.save_pressure
\* wrote the field)
save_pressure(is_tent, pressure, an) ==
    LET computed_gradient == (pressure.p_out - pressure.p_in) \div 20
        analytic_gradient == an.pgrad
        kp == IF is_tent THEN "p2" ELSE "p"
        kpg == IF is_tent THEN "pg2" ELSE "pg"
        kpgE == IF is_tent THEN "pgE2" ELSE "pgE"
        kpgEA == IF is_tent THEN "pgEA2" ELSE "pgEA"
        ld0 == IF is_tent THEN listDict
               ELSE AppendList(listDict, "ap_norm", FromInt(an.pnorm))
        ld1 == AppendList(AppendList(ld0, kp, FromInt(pressure.err)),
                          kpg, FromInt(computed_gradient))
        ld2 == IF is_tent THEN ld1
               ELSE AppendList(ld1, "apg", FromInt(analytic_gradient))
        ld3 == AppendList(AppendList(ld2,
                   kpgE, FromInt(computed_gradient - analytic_gradient)),
                   kpgEA, FromInt(Abs(computed_gradient - analytic_gradient)))
        ld4 == AppendSlist(ld3, kpgE, CycleValue(ld3, kpgE))
        ld5 == AppendSlist(ld4, kp, CycleValue(ld4, kp))
    IN
    /\ listDict' = IF isWholeSecond THEN ld5 ELSE ld3
    /\ UNCHANGED <<conf, scale_factor, normalization, files, time_list, second_list, actual_time,
                   step_number, isWholeSecond, N0, N1, analytic_v_norm,
                   last_error, last_status_functional, exc>>

\* Problem.compute_force, reached through Problem.compute_functionals
compute_force(force, an) ==
    LET ld1 == AppendList(AppendList(AppendList(listDict,
                   "a_force_wall", FromInt(an.force)),
                   "a_force_wall_normal", FromInt(an.f_normal)),
                   "a_force_wall_shear", FromInt(an.f_shear))
        ld2 == AppendList(AppendList(AppendList(ld1,
                   "force_wall", FromInt(force.error_force)),
                   "force_wall_normal", FromInt(force.error_f_normal)),
                   "force_wall_shear", FromInt(force.error_f_shear))
    IN
    /\ listDict' = IF isWholeSecond
                   THEN AppendSlist(ld2, "force_wall", CycleValue(ld2, "force_wall"))
                   ELSE ld2
    /\ UNCHANGED <<conf, scale_factor, normalization, files, time_list, second_list, actual_time,
                   step_number, isWholeSecond, N0, N1, analytic_v_norm,
                   last_error, last_status_functional, exc>>

\* ------------------------------------------------------------- report
\* [i / x for i in seq]
DivideAll(seq, x) == [i \in 1..Len(seq) |-> Quot(seq[i], x)]

\* the reference list of a key with a 'relative' entry
ReferenceList(key) == listDict[RelativeOf(key)].list

\* the rows report() derives for one key of the per-step table
ScaledRow(key) == DivideAll(listDict[key].list, scale_factor[1])

\* defect: the normalized row divided by the scale factor
NormalizedRow_ByScale(key) == DivideAll(listDict[key].list, scale_factor[1])

NormalizedRow(key) == DivideAll(listDict[key].list, normalization[NormOf(key)][1])

\* defect: every value divided by the latest reference entry
RelativeRow_LastReference(key) ==
    [i \in 1..Len(listDict[key].list) |->
        Quot(listDict[key].list[i], ReferenceList(key)[Len(ReferenceList(key))])]

\* [l['list'][i] / norm_list[i] for i in range(0, len(l['list']))]
RelativeRow(key) ==
    [i \in 1..Len(listDict[key].list) |->
        Quot(listDict[key].list[i], ReferenceList(key)[i])]

\* the exceptions deriving the per-step rows of a key can raise
TimeLineErrors(key) ==
    IF listDict[key].list = <<>> THEN {}
    ELSE (IF key \in ScaleKeys /\ scale_factor = <<>> THEN {"IndexError"} ELSE {})
      \cup (IF RelativeOf(key) # "none"
               /\ Len(ReferenceList(key)) < Len(listDict[key].list)
            THEN {"IndexError"} ELSE {})
      \cup (IF RelativeOf(key) # "none"
               /\ \E i \in 1..Len(listDict[key].list) :
                    i <= Len(ReferenceList(key)) /\ ReferenceList(key)[i].sg = 0
            THEN {"ZeroDivisionError"} ELSE {})

\* defect: the raw row written for a series without values too
TimeLineRowNames_AlwaysRaw(key) ==
    {"raw"}
      \cup (IF listDict[key].list # <<>> /\ key \in ScaleKeys THEN {"scaled"} ELSE {})
      \cup (IF listDict[key].list # <<>> /\ NormOf(key) # "none"
               /\ normalization[NormOf(key)] # <<>>
            THEN {"normalized"} ELSE {})
      \cup (IF listDict[key].list # <<>> /\ RelativeOf(key) # "none"
            THEN {"relative"} ELSE {})

\* the names of the per-step rows written for a key
TimeLineRowNames(key) ==
    IF listDict[key].list = <<>> THEN {}
    ELSE {"raw"}
      \cup (IF key \in ScaleKeys THEN {"scaled"} ELSE {})
      \cup (IF NormOf(key) # "none" /\ normalization[NormOf(key)] # <<>>
            THEN {"normalized"} ELSE {})
      \cup (IF RelativeOf(key) # "none" THEN {"relative"} ELSE {})

TimeLineRows(key) ==
    [r \in TimeLineRowNames(key) |->
        CASE r = "raw" -> listDict[key].list
          [] r = "scaled" -> ScaledRow(key)
          [] r = "normalized" -> NormalizedRow(key)
          [] r = "relative" -> RelativeRow(key)]

\* the cells the per-step rows of a key carry after their values: the scaled
\* row ends with 'scale factor:' + str(l['scale'])
TimeLineTrailing(key) ==
    [r \in TimeLineRowNames(key) |->
        IF r = "scaled" THEN <<[text |-> "scale factor:", scale |-> scale_factor]>>
        ELSE <<>>]

\* the entry of a key after the per-step loop of report()
AfterTimeLines(key) ==
    LET l == listDict[key]
        l1 == IF l.list # <<>> /\ NormOf(key) # "none"
                 /\ normalization[NormOf(key)] = <<>>
              THEN [normalized_list_sec |-> <<>>] @@ l
              ELSE l
    IN IF l.list # <<>> /\ RelativeOf(key) # "none"
       THEN [relative_list |-> RelativeRow(key)] @@ l1
       ELSE l1

\* the per-cycle relative row: for each closed second the root mean square of
\* its window of the relative list
RelativeSeconds(relative_list) ==
    [c \in 1..Len(second_list) |->
        RootMeanSquare(relative_list,
                       (second_list[c] - 1) * conf.stepsInSecond,
                       second_list[c] * conf.stepsInSecond,
                       conf.stepsInSecond)]

\* the exceptions deriving the per-cycle rows of a key can raise
SecondsErrors(key) ==
    IF key \in SlistKeys /\ listDict[key].slist # <<>>
       /\ key \in ScaleKeys /\ scale_factor = <<>>
    THEN {"IndexError"} ELSE {}

\* the names of the per-cycle rows written for a key
SecondsRowNames(key) ==
    IF key \notin SlistKeys THEN {}
    ELSE {"raw"}
      \cup (IF key \in ScaleKeys THEN {"scaled"} ELSE {})
      \cup (IF NormOf(key) # "none" /\ normalization[NormOf(key)] # <<>>
            THEN {"normalized"} ELSE {})
      \cup (IF "relative_list" \in DOMAIN AfterTimeLines(key)
            THEN {"relative"} ELSE {})

SecondsRows(key) ==
    [r \in SecondsRowNames(key) |->
        CASE r = "raw" -> listDict[key].slist
          [] r = "scaled" -> DivideAll(listDict[key].slist, scale_factor[1])
          [] r = "normalized" ->
               DivideAll(listDict[key].slist, normalization[NormOf(key)][1])
          [] r = "relative" -> RelativeSeconds(AfterTimeLines(key).relative_list)]

\* the entry of a key after both loops of report()
AfterSeconds(key) ==
    LET l == AfterTimeLines(key)
        l1 == IF key \in SlistKeys /\ NormOf(key) # "none"
              THEN [normalized_list_sec |->
                       IF normalization[NormOf(key)] # <<>>
                       THEN SecondsRows(key)["normalized"] ELSE <<>>] @@ l
              ELSE l
    IN IF key \in SlistKeys /\ "relative_list" \in DOMAIN l
       THEN [relative_list_sec |-> SecondsRows(key)["relative"]] @@ l1
       ELSE l1

\* the keys report() summarises, in its order
SummaryKeys ==
    <<"u_L2", "u_H1", "u_H1w", "p", "u2L2", "u2H1", "u2H1w", "p2", "pgE",
      "pgE2", "d", "d2", "force_wall">>

LastOr0(seq) == IF seq # <<>> THEN seq[Len(seq)] ELSE FromInt(0)

\* defect: the normalized column of p and p2 gets its header always but its
\* value only when a normalized cycle value exists
SummaryColumns_HeaderOnly(key) ==
    LET l == AfterSeconds(key)
        h1 == <<<<"last_cycle_", key, "">>>>
        d1 == <<LastOr0(l.slist)>>
    IN IF "relative_list_sec" \in DOMAIN l /\ l.relative_list_sec # <<>>
       THEN [header |-> h1 \o <<<<"last_cycle_", key, "r">>>>,
             data |-> d1 \o <<l.relative_list_sec[Len(l.relative_list_sec)]>>]
       ELSE IF key \in {"p", "p2"}
       THEN [header |-> h1 \o <<<<"last_cycle_", key, "n">>>>,
             data |-> d1 \o (IF l.normalized_list_sec # <<>>
                             THEN <<LastOr0(l.normalized_list_sec)>> ELSE <<>>)]
       ELSE [header |-> h1, data |-> d1]

\* what one key adds to header_row and to data_row
SummaryColumns(key) ==
    LET l == AfterSeconds(key)
        h1 == <<<<"last_cycle_", key, "">>>>
        d1 == <<LastOr0(l.slist)>>
    IN IF "relative_list_sec" \in DOMAIN l /\ l.relative_list_sec # <<>>
       THEN [header |-> h1 \o <<<<"last_cycle_", key, "r">>>>,
             data |-> d1 \o <<l.relative_list_sec[Len(l.relative_list_sec)]>>]
       ELSE IF key \in {"p", "p2"}
       THEN [header |-> h1 \o <<<<"last_cycle_", key, "n">>>>,
             data |-> d1 \o <<LastOr0(l.normalized_list_sec)>>]
       ELSE [header |-> h1, data |-> d1]

\* header_row and data_row after the loop over the keys, without their
\* three leading columns
RECURSIVE SummaryFrom(_)
SummaryFrom(keys) ==
    IF keys = <<>> THEN [header |-> <<>>, data |-> <<>>]
    ELSE LET rest == SummaryFrom(Tail(keys))
             this == IF Head(keys) \in DOMAIN listDict
                     THEN SummaryColumns(Head(keys))
                     ELSE [header |-> <<>>, data |-> <<>>]
         IN [header |-> this.header \o rest.header, data |-> this.data \o rest.data]

\* the three leading columns: name, metadata, total run time
LeadingHeader == <<<<"name">>, <<"metadata">>, <<"totalTimeHours">>>>

LeadingData == <<[text |-> "name"], [text |-> "metadata"], [text |-> "total"]>>

\* defect: the status file is left in place
RemoveStatusFile_Keeps(fs) == fs

\* GeneralProblem.remove_status_file
RemoveStatusFile(fs) ==
    IF conf.MPI_rank = 0 THEN [n \in DOMAIN fs \ {".run"} |-> fs[n]] ELSE fs

\* GeneralProblem.report
report ==
    LET errors == UNION {TimeLineErrors(key) \cup SecondsErrors(key) :
                           key \in DOMAIN listDict}
        summary == SummaryFrom(SummaryKeys)
        header_row == LeadingHeader \o summary.header
        data_row == LeadingData \o summary.data
        written ==
            [n \in {"report_time_lines.csv", "report_seconds.csv", "report.csv",
                    "report_h.csv", "report_timecontrol.csv", "_OK.report"} |->
                CASE n = "report_time_lines.csv" ->
                       [complete |-> TRUE, header |-> time_list,
                        rows |-> [key \in DOMAIN listDict |-> TimeLineRows(key)],
                        trailing |-> [key \in DOMAIN listDict |->
                                        TimeLineTrailing(key)]]
                  [] n = "report_seconds.csv" ->
                       [complete |-> TRUE, header |-> second_list,
                        rows |-> [key \in DOMAIN listDict |-> SecondsRows(key)]]
                  [] n = "report.csv" -> [complete |-> TRUE, data |-> data_row]
                  [] n = "report_h.csv" ->
                       [complete |-> TRUE, header |-> header_row, data |-> data_row]
                  [] OTHER -> [complete |-> TRUE]]
    IN
    /\ IF errors = {}
       THEN /\ listDict' = [key \in DOMAIN listDict |-> AfterSeconds(key)]
            /\ files' = written @@ RemoveStatusFile(files)
            /\ exc' = exc
       ELSE \* an exception leaves the per-step loop: the table stays
            \* unfinished (which rows precede the failing key is left open)
            /\ listDict' = listDict
            /\ files' = ("report_time_lines.csv" :> [complete |-> FALSE]) @@ files
            /\ exc' \in errors
    /\ UNCHANGED <<conf, scale_factor, normalization, time_list, second_list,
                   actual_time, step_number, isWholeSecond, N0, N1,
                   analytic_v_norm, last_error, last_status_functional>>

\* '%5.3f' % t for a time in microseconds
Pad3(i) == (IF i < 10 THEN "00" ELSE IF i < 100 THEN "0" ELSE "") \o ToString(i)

Format53(t) ==
    LET ms == Round(t, UsPerMs) IN ToString(ms \div 1000) \o "." \o Pad3(ms % 1000)

\* the name of the file report_fail writes
FailedName(t) == "_failed_at_" \o Format53(t) \o ".report"

\* GeneralProblem.report_fail: the sentinel holds traceback.format_exc()
report_fail(t) ==
    /\ files' = RemoveStatusFile((FailedName(t) :> [trace |-> exc]) @@ files)
    /\ UNCHANGED <<conf, scale_factor, normalization, listDict, time_list,
                   second_list, actual_time, step_number, isWholeSecond, N0, N1,
                   analytic_v_norm, last_error, last_status_functional, exc>>

\* GeneralProblem.write_status_file
write_status_file(t) ==
    /\ files' = (".run" :> [t |-> Format53(t), status |-> last_status_functional])
                   @@ files
    /\ UNCHANGED <<conf, scale_factor, normalization, listDict, time_list,
                   second_list, actual_time, step_number, isWholeSecond, N0, N1,
                   analytic_v_norm, last_error, last_status_functional, exc>>

\* ------------------------------------------------------------ the caller
\* The time loop that drives the problem: per step one update_time at
\* t = k * dt, then each functional of the step once (in any order); a call
\* that raises ends the run; report() follows the last complete step.
\* With strict = FALSE the methods are called in any order instead.
OpsOf(c) ==
    IF c.problem_code = "WCYL"
    THEN {"div_t", "div_c", "err_t", "err_c", "p_t", "p_c", "functionals"}
    ELSE {"div_t", "div_c", "err_t", "err_c"}

MayCall(strict, maxCalls, op) ==
    /\ pc = "run"
    /\ time_list # <<>>
    /\ op \in OpsOf(conf)
    /\ IF strict THEN op \notin done ELSE calls < maxCalls

Called(op) ==
    /\ done' = done \cup {op}
    /\ calls' = calls + 1
    /\ pc' = IF exc' # "" THEN "failed" ELSE "run"
    /\ UNCHANGED <<fields, meshVars, profileVars>>

CallUpdateTime(strict, maxSteps, maxCalls, sols, ans) ==
    /\ pc = "run"
    /\ Len(time_list) < maxSteps
    /\ IF strict THEN time_list = <<>> \/ done = OpsOf(conf) ELSE calls < maxCalls
    /\ \E sol \in sols, an \in ans :
         LET k == conf.first + Len(time_list) IN
         /\ update_time(k * conf.dt, k, an)
         /\ fields' = [solution |-> sol, analytic |-> an]
    /\ done' = {}
    /\ calls' = calls + 1
    /\ pc' = "run"
    /\ UNCHANGED <<meshVars, basisVars, returned>>

CallComputeDiv(strict, maxCalls) ==
    \E is_tent \in BOOLEAN :
      LET op == IF is_tent THEN "div_t" ELSE "div_c" IN
      /\ MayCall(strict, maxCalls, op)
      /\ compute_div(is_tent, IF is_tent THEN fields.solution.u2 ELSE fields.solution.u)
      /\ Called(op)

CallComputeErr(strict, maxCalls) ==
    \E is_tent \in BOOLEAN :
      LET op == IF is_tent THEN "err_t" ELSE "err_c" IN
      /\ MayCall(strict, maxCalls, op)
      /\ compute_err(is_tent, IF is_tent THEN fields.solution.u2 ELSE fields.solution.u)
      /\ Called(op)

CallSavePressure(strict, maxCalls) ==
    \E is_tent \in BOOLEAN :
      LET op == IF is_tent THEN "p_t" ELSE "p_c" IN
      /\ MayCall(strict, maxCalls, op)
      /\ save_pressure(is_tent,
                       IF is_tent THEN fields.solution.p2 ELSE fields.solution.p,
                       fields.analytic)
      /\ Called(op)

CallComputeFunctionals(strict, maxCalls) ==
    /\ MayCall(strict, maxCalls, "functionals")
    /\ compute_force(fields.solution.force, fields.analytic)
    /\ Called("functionals")

CallReport(strict, maxCalls) ==
    /\ pc = "run"
    /\ time_list # <<>>
    /\ IF strict THEN done = OpsOf(conf) ELSE calls < maxCalls
    /\ report
    /\ pc' = IF exc' # "" THEN "failed" ELSE "reported"
    /\ calls' = calls + 1
    /\ UNCHANGED <<done, fields, meshVars, profileVars>>

\* the status of the step is written when its functionals are computed
CallWriteStatusFile ==
    /\ pc = "run"
    /\ time_list # <<>>
    /\ done = OpsOf(conf)
    /\ write_status_file(actual_time)
    /\ UNCHANGED <<pc, done, fields, calls, meshVars, profileVars>>

\* an exception that left a call is answered with report_fail at the time
\* of the failing step
CallReportFail ==
    /\ pc = "failed"
    /\ report_fail(actual_time)
    /\ pc' = "fail_reported"
    /\ UNCHANGED <<done, fields, calls, meshVars, profileVars>>

\* initialize is called once, before the time loop
CallInitialize ==
    /\ pc = "new"
    /\ initialize
    /\ pc' = "run"
    /\ UNCHANGED <<conf, scale_factor, files, listDict, time_list, second_list,
                   actual_time, step_number, isWholeSecond, N0, N1, analytic_v_norm,
                   last_error, last_status_functional, exc, done, fields, calls>>
    /\ UNCHANGED <<meshVars, precomputed, ic, returned>>

\* the times the analytic solution is evaluated at
EvaluationTimes == {q * QuarterUs : q \in 0..MaxQuarters}

\* the times the solver asks the analytic velocity for
RequestTimes == {0, QuarterUs, UsPerSecond, MaxQuarters * QuarterUs}

\* the solver asks for an analytic velocity once before the time loop and
\* once in every step
MayAsk == Len(returned) <= Len(time_list)

\* defect: the field is assembled in self.solution instead of a new Function
CallGetVSolution_IntoSolution ==
    /\ pc = "run"
    /\ MayAsk
    /\ \E t \in RequestTimes :
         /\ returned' = Append(returned, [t |-> t, sol |-> get_v_solution(t),
                                         from |-> "assemble_solution"])
         /\ solution' = get_v_solution(t)
    /\ UNCHANGED <<problemVars, meshVars, basisVars>>

\* the solver asks for the analytic velocity of any time
CallGetVSolution ==
    /\ pc = "run"
    /\ MayAsk
    /\ \E t \in RequestTimes :
         returned' = Append(returned, [t |-> t, sol |-> get_v_solution(t),
                                      from |-> "assemble_solution"])
    /\ UNCHANGED <<problemVars, meshVars, basisVars, solution>>

\* and for the initial condition of a velocity function of some time
CallGetInitialConditions ==
    /\ pc = "run"
    /\ MayAsk
    /\ \E t \in RequestTimes :
         LET out == get_initial_conditions(<<[type |-> "v", time |-> t]>>) IN
         returned' = Append(returned,
             [t |-> t, sol |-> out[1],
              from |-> IF ic = "correct" THEN "assemble_solution" ELSE "Function"])
    /\ UNCHANGED <<problemVars, meshVars, basisVars, solution>>

Run(strict, maxSteps, maxCalls, sols, ans) ==
    \/ CallUpdateTime(strict, maxSteps, maxCalls, sols, ans)
    \/ CallComputeDiv(strict, maxCalls)
    \/ CallComputeErr(strict, maxCalls)
    \/ CallSavePressure(strict, maxCalls)
    \/ CallComputeFunctionals(strict, maxCalls)
    \/ CallReport(strict, maxCalls)

\* ------------------------------------------------- mesh preparation
\* prepare_real_mesh.py.  The meshes are cubes [0, 2*mesh]^3 cut into 24
\* tetrahedra around the centre: vertices are the corners, the face centres
\* and the centre, in units of the scale `mesh`.
Corner(v) == \A i \in 1..3 : v[i] \in {0, 2}

FaceCentre(v) == Cardinality({i \in 1..3 : v[i] = 1}) = 2

Centre == <<1, 1, 1>>

Vertices ==
    {v \in (0..2) \X (0..2) \X (0..2) : Corner(v) \/ FaceCentre(v) \/ v = Centre}

\* the face of the cube a face centre lies in: <<axis, value>>
FaceOf(fc) == LET i == CHOOSE i \in 1..3 : fc[i] # 1 IN <<i, fc[i]>>

OnFace(v, face) == v[face[1]] = face[2]

Adjacent(c1, c2) == Cardinality({i \in 1..3 : c1[i] # c2[i]}) = 1

Corners == {v \in Vertices : Corner(v)}

FaceCentres == {v \in Vertices : FaceCentre(v)}

\* edges of the mesh that lie in the surface of the cube
SurfaceEdges ==
    UNION {{{c1, c2} : c2 \in {c \in Corners : Adjacent(c1, c)}} : c1 \in Corners}
      \cup UNION {{{fc, c} : c \in {c \in Corners : OnFace(c, FaceOf(fc))}} :
                   fc \in FaceCentres}

\* edges(mesh)
Edges == SurfaceEdges \cup {{Centre, v} : v \in Vertices \ {Centre}}

\* facets(mesh) whose exterior() holds
ExteriorFacets ==
    UNION {{e \cup {fc} : e \in {e \in SurfaceEdges :
                                   \A c \in e : Corner(c) /\ OnFace(c, FaceOf(fc))}} :
             fc \in FaceCentres}

\* facets(mesh)
Facets == ExteriorFacets \cup {e \cup {Centre} : e \in SurfaceEdges}

\* v.point() of a vertex of the mesh of scale s
Point(v, s) == <<v[1] * s, v[2] * s, v[3] * s>>

\* e.length()
Length(e, s) ==
    LET a == CHOOSE v \in e : TRUE
        b == CHOOSE v \in e : v # a
    IN sqrt(((a[1] - b[1]) * s) * ((a[1] - b[1]) * s)
              + ((a[2] - b[2]) * s) * ((a[2] - b[2]) * s)
              + ((a[3] - b[3]) * s) * ((a[3] - b[3]) * s), 1)

\* a < b for non-negative scalars
LessThan(a, b) == a.n * b.d < b.n * a.d

\* the planes declared for the mesh of scale s, in the order of
\* itertools.chain(inflows, outflows): faces y = 0 and x = 0 are inflows 2
\* and 4, faces y = 2s and x = 2s are outflows 3 and 5
Planes(s) ==
    <<[number |-> 2, normal |-> <<0, 1, 0>>, center |-> <<s, 0, s>>],
      [number |-> 4, normal |-> <<-2, 0, 0>>, center |-> <<0, s, s>>],
      [number |-> 3, normal |-> <<0, 1, 0>>, center |-> <<s, 2 * s, s>>],
      [number |-> 5, normal |-> <<1, 0, 0>>, center |-> <<2 * s, s, s>>]>>

number_list == <<2, 3, 4, 5>>

\* vector product of two lists
vec(list1, list2) == list1[1] * list2[1] + list1[2] * list2[2] + list1[3] * list2[3]

\* abs(vec(p, obj['normal']) - obj['d']) < tol
InPlane(p, obj, t) ==
    LET a == Abs(vec(p, obj.normal) - vec(obj.center, obj.normal))
    IN a * a * t.d < t.n

\* returns number of plane the given point is in (None is kept as 0)
point_in_subdomain(p, planes, t) ==
    LET hits == {i \in 1..Len(planes) : InPlane(p, planes[i], t)}
    IN IF hits = {} THEN 0
       ELSE planes[CHOOSE i \in hits : \A j \in hits : i <= j].number

\* defect: a facet that matches no plane is marked 0
FacetId_NoWall(f, s, t) ==
    LET matches == {i \in 1..Len(number_list) :
                      \A v \in f :
                        point_in_subdomain(Point(v, s), Planes(s), t) = number_list[i]}
    IN IF matches = {} THEN 0
       ELSE number_list[CHOOSE i \in matches : \A j \in matches : i <= j]

\* the marker the loop over number_list gives an exterior facet
FacetId(f, s, t) ==
    LET matches == {i \in 1..Len(number_list) :
                      \A v \in f :
                        point_in_subdomain(Point(v, s), Planes(s), t) = number_list[i]}
    IN IF matches = {} THEN 1
       ELSE number_list[CHOOSE i \in matches : \A j \in matches : i <= j]

\* the element a loop visits next
NextOf(S) == CHOOSE x \in S : TRUE

\* one pass of `for e in edges(mesh)`
ScanEdge ==
    /\ mpc = "edges"
    /\ todo # {}
    /\ LET e == NextOf(todo)
           l == Length(e, mesh)
       IN /\ edge_max' = IF LessThan(edge_max, l) THEN l ELSE edge_max
          /\ edge_min' = IF LessThan(l, edge_min) THEN l ELSE edge_min
          /\ todo' = todo \ {e}
    /\ UNCHANGED <<mesh, tol, facet_function, mpc, problemVars, profileVars>>

\* tol = edge_min/10.
ComputeTol ==
    /\ mpc = "edges"
    /\ todo = {}
    /\ tol' = Quot(edge_min, FromInt(10))
    /\ todo' = Facets
    /\ mpc' = "facets"
    /\ UNCHANGED <<mesh, edge_min, edge_max, facet_function, problemVars, profileVars>>

\* one pass of `for f_mesh in facets(mesh)`
MarkFacet ==
    /\ mpc = "facets"
    /\ todo # {}
    /\ LET f == NextOf(todo)
       IN /\ facet_function' =
               IF f \in ExteriorFacets
               THEN [facet_function EXCEPT ![f] = FacetId(f, mesh, tol)]
               ELSE facet_function
          /\ todo' = todo \ {f}
    /\ UNCHANGED <<mesh, edge_min, edge_max, tol, mpc, problemVars, profileVars>>

\* the mesh and facet_function are written to the HDF5 file
WriteMesh ==
    /\ mpc = "facets"
    /\ todo = {}
    /\ mpc' = "written"
    /\ UNCHANGED <<mesh, edge_min, edge_max, tol, facet_function, todo, problemVars, profileVars>>

\* ------------------------------------------------------- specifications
\* the time loop with timesteps that divide one second
Dts == {500000, 1000000}

Init ==
    \E error \in {"doEC", "noEC"}, dt \in Dts :
        InitWith(Conf("WCYL", error, dt, 1))

Next == Run(TRUE, MaxSteps, 0, Solutions, AnalyticsTime)

Spec == Init /\ [][Next]_vars

\* the time loop over many timestep sizes, started at step 0 or 1
DtsTime == {250000, 300000, 400000, 500000, 1000000}

InitTime ==
    \E dt \in DtsTime, first \in {0, 1} :
        InitWith(Conf("WCYL", "doEC", dt, first))

NextTime == Run(TRUE, MaxStepsTime, 0, SolutionsTime, AnalyticsTime)

SpecTime == InitTime /\ [][NextTime]_vars

\* the methods called in any order, on the Womersley problem, on a problem
\* like it that fills no normalisation factor, and on a problem without
\* analytic solution that fills no scale factor
InitApi ==
    \E c \in {Conf("WCYL", "doEC", 1000000, 1), Conf("WCYL", "test", 1000000, 1),
              Unnormalized(Conf("WCYL", "doEC", 1000000, 1)),
              Conf("GEN", "doEC", 1000000, 1)} :
        InitWith(c)

NextApi == Run(FALSE, MaxCalls, MaxCalls, SolutionsTime, Analytics)

SpecApi == InitApi /\ [][NextApi]_vars

\* the time loop with ten steps per second and a solver that reproduces the
\* analytic solution in every step
InitCycle == InitWith(Conf("WCYL", "doEC", 100000, 1))

NextCycle == Run(TRUE, MaxStepsCycle, 0, SolutionsExact, AnalyticsTime)

SpecCycle == InitCycle /\ [][NextCycle]_vars

\* the time loop of one process of a run on two MPI ranks, with the status
\* file and the answer to a failure
InitRun ==
    \E rank \in {0, 1} : InitWith(OnRank(Conf("WCYL", "doEC", 1000000, 1), rank))

NextRun ==
    \/ Run(TRUE, MaxStepsRun, 0, Solutions, AnalyticsTime)
    \/ CallWriteStatusFile
    \/ CallReportFail

SpecRun == InitRun /\ [][NextRun]_vars

\* the mesh preparation on a small and on a large cube; FacetFunction
\* ("size_t", mesh) is created without initial value, so its content before
\* the loop is whatever the memory holds
MeshScales == {5, 2000}

Uninitialized == {0, 3}

InitMesh ==
    /\ ProblemInit(Conf("GEN", "noEC", 1000000, 1))
    /\ NoProfile
    /\ mesh \in MeshScales
    /\ edge_min = FromInt(1000)
    /\ edge_max = FromInt(0)
    /\ tol = FromInt(0)
    /\ \E value \in Uninitialized : facet_function = [f \in Facets |-> value]
    /\ todo = Edges
    /\ mpc = "edges"

NextMesh == ScanEdge \/ ComputeTol \/ MarkFacet \/ WriteMesh

SpecMesh == InitMesh /\ [][NextMesh]_vars

\* the Womersley problem from its construction on, with the basis fields
\* of the analytic profile, timestep a quarter second
InitProfile ==
    /\ NoMesh
    /\ ProblemState(Conf("WCYL", "doEC", QuarterUs, 1), FALSE)
    /\ \E run \in {<<PrecomputedNoSlip, "correct">>, <<PrecomputedSlip, "correct">>,
                    <<PrecomputedNoSlip, "zero">>} :
         /\ precomputed = run[1]
         /\ ic = run[2]
    /\ bessel_parabolic = None
    /\ bessel_real = <<>>
    /\ bessel_complex = <<>>
    /\ solution = None
    /\ returned = <<>>

NextProfile ==
    \/ CallInitialize
    \/ Run(TRUE, MaxStepsProfile, 0, SolutionsTime, AnalyticsTime)
    \/ CallGetVSolution
    \/ CallGetInitialConditions

SpecProfile == InitProfile /\ [][NextProfile]_vars

\* ================================================================ claims
\* the window of the c-th closed second in a list, aggregated as a root
\* mean square
WindowRMS(list, c) ==
    RootMeanSquare(list, (second_list[c] - 1) * conf.stepsInSecond,
                   second_list[c] * conf.stepsInSecond, conf.stepsInSecond)

\* C1: every cycle aggregate of every series that carries cycle aggregates
\* (the divergence series d and d2 included) is the root mean square
\* sqrt(sum of squares over the window / S) of the closing window.
C1_AggregateIsRootMeanSquare ==
    \A key \in DOMAIN listDict \cap SlistKeys :
      \A c \in 1..Len(listDict[key].slist) :
        listDict[key].slist[c] = WindowRMS(listDict[key].list, c)

\* a call of compute_err with the given flag is the step taken
ErrCalled(is_tent) ==
    LET op == IF is_tent THEN "err_t" ELSE "err_c" IN op \notin done /\ op \in done'

\* a call of compute_div with the given flag is the step taken
DivCalled(is_tent) ==
    LET op == IF is_tent THEN "div_t" ELSE "div_c" IN op \notin done /\ op \in done'

\* error control is enabled and an analytic solution exists
ErrorControlOn == conf.doErrControl /\ conf.has_analytic_solution

GrowsByOne(key) == Len(listDict'[key].list) = Len(listDict[key].list) + 1

\* C2: with error control on, every compute_err call grows the L2, H1 and
\* wall-H1 error series of the selected variant by exactly one entry each,
\* the call that exceeds the divergence threshold included.
C2_ErrGrowsItsThreeSeries ==
    [][\A is_tent \in BOOLEAN :
         ErrCalled(is_tent) /\ ErrorControlOn =>
           /\ GrowsByOne(KeyL2(is_tent))
           /\ GrowsByOne(KeyH1(is_tent))
           /\ GrowsByOne(KeyH1w(is_tent))]_vars

\* the step's functionals have all been computed
StepComplete == pc = "run" /\ time_list # <<>> /\ done = OpsOf(conf)

\* C3: when a step that closes a cycle is complete, every series with a
\* cycle-aggregate column that holds values has one cycle aggregate per
\* closed cycle (force_wall_normal and force_wall_shear included).
C3_OneAggregatePerClosedCycle ==
    StepComplete =>
      \A key \in DOMAIN listDict \cap SlistKeys :
        listDict[key].list # <<>> =>
          Len(listDict[key].slist) = Len(second_list)

\* a call appended a cycle aggregate to the key
AggregateAppended(key) ==
    /\ key \in DOMAIN listDict \cap SlistKeys
    /\ Len(listDict'[key].slist) = Len(listDict[key].slist) + 1

\* the window the closing step aggregates for the key is the one of the
\* whole second c the step is at: indices [(c-1)*S, c*S), all of them
\* existing, appended in the steps of cycle c, the last in this very step
WindowIsTheClosingCycle(key) ==
    LET c == second_list[Len(second_list)]
        S == conf.stepsInSecond
        list == listDict'[key].list
        slist == listDict'[key].slist
    IN /\ c * UsPerSecond = actual_time
       /\ N0 = (c - 1) * S
       /\ N1 = c * S
       /\ N1 = Len(list)
       /\ Len(Slice(list, N0, N1)) = S
       /\ \A i \in (N0 + 1)..N1 :
            i <= Len(time_list)
            /\ (c - 1) * UsPerSecond < time_list[i]
            /\ time_list[i] <= c * UsPerSecond
       /\ slist[Len(slist)] \in {RootMeanSquare(list, (c - 1) * S, c * S, S),
                                 MeanSquare(list, (c - 1) * S, c * S, S)}

\* the timestep divides one second into a whole number of steps
DividesSecond(dt) == UsPerSecond % dt = 0

\* C4 as stated: for every timestep size, with steps at t = k*dt, k = 1, 2,
\* ..., every aggregate appended at whole second c is computed from the
\* indices [(c-1)*S, c*S), which hold exactly S values, all appended during
\* cycle c, the last one in the closing step.
C4_WindowForEveryDt ==
    [][conf.first = 1 =>
         \A key \in SlistKeys :
           AggregateAppended(key) => WindowIsTheClosingCycle(key)]_vars

\* C4 amended: the same for every timestep size that divides one second
\* into a whole number of steps.
C4_WindowForDividingDt ==
    [][conf.first = 1 /\ DividesSecond(conf.dt) =>
         \A key \in SlistKeys :
           AggregateAppended(key) => WindowIsTheClosingCycle(key)]_vars

\* C4 witness: with four steps per second the second cycle has been closed
\* and aggregated
C4_Witness ==
    /\ conf.first = 1
    /\ conf.dt = 250000
    /\ second_list = <<1, 2>>
    /\ Len(listDict["u_H1"].slist) = 2
    /\ Len(listDict["u_H1"].list) = 8

\* a call of update_time is the step taken
UpdateTimeCalled == Len(time_list') = Len(time_list) + 1

\* t lies within half a timestep of a whole second
WithinHalfStepOfSecond(t, dt) ==
    \E c \in 0..(t \div UsPerSecond + 1) : 2 * Abs(t - c * UsPerSecond) < dt

\* t rounds to a whole second when rounded to milliseconds
WithinHalfMsOfSecond(t) ==
    \E c \in 0..(t \div UsPerSecond + 1) :
      2 * (c * UsPerSecond - t) <= UsPerMs /\ 2 * (t - c * UsPerSecond) < UsPerMs

\* the whole seconds 1..floor(t), each once
SecondsPassed(t) == [c \in 1..(t \div UsPerSecond) |-> c]

\* C5 as stated: update_time marks a step as closing a cycle exactly when
\* t > 0.5 and t lies within half a timestep of a whole second, and for
\* every timestep size each whole second passed is closed exactly once.
C5_ClosesWithinHalfStep ==
    [][UpdateTimeCalled =>
         /\ isWholeSecond' <=>
              (actual_time' > UsPerSecond \div 2
               /\ WithinHalfStepOfSecond(actual_time', conf.dt))
         /\ second_list' = SecondsPassed(actual_time')]_vars

\* C5 amended: update_time marks a step as closing a cycle exactly when
\* t > 0.5 and t is within half a millisecond of a whole second; a step at
\* t <= 0.5 never closes a cycle; for every timestep size that divides one
\* second each whole second passed is closed by exactly one step.
C5_ClosesWithinHalfMs ==
    [][UpdateTimeCalled =>
         /\ isWholeSecond' <=>
              (actual_time' > UsPerSecond \div 2
               /\ WithinHalfMsOfSecond(actual_time'))
         /\ DividesSecond(conf.dt) => second_list' = SecondsPassed(actual_time')]_vars

\* C5 witness: a run with two steps per second is at the step closing its
\* second cycle
C5_Witness ==
    /\ conf.dt = 500000
    /\ actual_time = 2 * UsPerSecond
    /\ isWholeSecond
    /\ second_list = <<1, 2>>

\* the stop signal of compute_err has been raised
StopSignalled == exc = "RuntimeError: STOPPED: Failed divergence test!"

\* the H1 error just appended for the variant, divided by the current
\* analytic H1 norm, is strictly greater than the threshold (compared in
\* squares: h / a > T  iff  h^2 > T^2 * a^2 for non-negative h, a > 0)
RelativeH1AboveThreshold(is_tent) ==
    LET list == listDict'[KeyH1(is_tent)].list
        h == list[Len(list)]
        a == analytic_v_norm.H1
    IN h.n * a.d > divergence_treshold * divergence_treshold * a.n * h.d

\* C6: with error control on, a compute_err call signals the stop exactly
\* when the H1 error it computed divided by the current analytic H1 norm is
\* strictly greater than the divergence threshold: on that very call, and
\* on no call where the ratio is at most the threshold.
C6_StopExactlyAboveThreshold ==
    [][\A is_tent \in BOOLEAN :
         ErrCalled(is_tent) /\ ErrorControlOn =>
           (StopSignalled' <=> RelativeH1AboveThreshold(is_tent))]_vars

\* C6 witness: a call stopped the run with a relative error above 10 after
\* an earlier call whose relative error was exactly 10 did not
C6_Witness ==
    /\ StopSignalled
    /\ pc = "failed"
    /\ last_error = FromInt(13)
    /\ \E is_tent \in BOOLEAN :
         \E i \in 1..Len(listDict[KeyH1(is_tent)].list) :
           listDict[KeyH1(is_tent)].list[i] = FromInt(20)

\* C7: with error control disabled (or no analytic solution) a compute_err
\* call changes no per-step series and no cycle-aggregate series, leaves the
\* last relative error unchanged and signals no stop.
C7_DisabledErrDoesNothing ==
    [][\A is_tent \in BOOLEAN :
         ErrCalled(is_tent) /\ ~ErrorControlOn =>
           /\ listDict' = listDict
           /\ last_error' = last_error
           /\ exc' = exc]_vars

\* the series of the tentative and of the corrected variant
TentativeKeys ==
    {"d2", "u2L2", "u2H1", "u2H1w", "u2L2test", "u2H1test", "p2", "pg2",
     "pgE2", "pgEA2"}

CorrectedKeys ==
    {"d", "u_L2", "u_H1", "u_H1w", "u_L2test", "u_H1test", "p", "pg", "pgE",
     "pgEA"}

OtherVariantKeys(is_tent) == IF is_tent THEN CorrectedKeys ELSE TentativeKeys

LastOf(key) == listDict'[key].list[Len(listDict'[key].list)]

\* both variants have been given the same velocity in this step and the
\* named call of the second variant is the step taken
SecondOfEqualPair(is_tent, other_op) ==
    /\ other_op \in done
    /\ fields.solution.u2 = fields.solution.u

\* C8: a compute_err or compute_div call with is_tentative = true leaves
\* every series of the corrected variant unchanged (values and cycle
\* aggregates), one with is_tentative = false leaves every series of the
\* tentative variant unchanged, and when both variants are given equal
\* velocities they append equal values to their respective series.
C8_FlagOnlySelectsSeries ==
    [][\A is_tent \in BOOLEAN :
         /\ ErrCalled(is_tent) \/ DivCalled(is_tent) =>
              \A key \in OtherVariantKeys(is_tent) \cap DOMAIN listDict :
                listDict'[key] = listDict[key]
         /\ (/\ ErrCalled(is_tent)
             /\ SecondOfEqualPair(is_tent, IF is_tent THEN "err_c" ELSE "err_t")
             /\ pc' = "run") =>
              /\ ErrorControlOn =>
                   /\ LastOf(KeyL2(TRUE)) = LastOf(KeyL2(FALSE))
                   /\ LastOf(KeyH1(TRUE)) = LastOf(KeyH1(FALSE))
              /\ Len(listDict'[KeyL2(TRUE)].list) = Len(listDict'[KeyL2(FALSE)].list)
              /\ Len(listDict'[KeyH1(TRUE)].list) = Len(listDict'[KeyH1(FALSE)].list)
              /\ LastOf(KeyH1w(TRUE)) = LastOf(KeyH1w(FALSE))
              /\ Len(listDict'[KeyH1w(TRUE)].list) = Len(listDict'[KeyH1w(FALSE)].list)
         /\ (/\ DivCalled(is_tent)
             /\ SecondOfEqualPair(is_tent, IF is_tent THEN "div_c" ELSE "div_t")) =>
              /\ LastOf(KeyDiv(TRUE)) = LastOf(KeyDiv(FALSE))
              /\ Len(listDict'[KeyDiv(TRUE)].list) = Len(listDict'[KeyDiv(FALSE)].list)]_vars

\* C8 witness: in one step both variants computed errors and divergence of
\* the same non-exact velocity
C8_Witness ==
    /\ {"err_t", "err_c", "div_t", "div_c"} \subseteq done
    /\ fields.solution.u2 = VOff
    /\ fields.solution.u = VOff
    /\ conf.doErrControl
    /\ listDict["u2H1w"].list # <<>>
    /\ listDict["u_H1w"].list # <<>>

\* a call of report is the step taken
ReportCalled ==
    /\ "report_time_lines.csv" \notin DOMAIN files
    /\ "report_time_lines.csv" \in DOMAIN files'

\* the per-step table report() has just written, when it finished it
TimeLinesWritten == files'["report_time_lines.csv"]

\* report() finished the per-step table with the named row for the key
RowWritten(key, row) ==
    /\ TimeLinesWritten.complete
    /\ row \in DOMAIN TimeLinesWritten.rows[key]

\* the keys whose relative row report() has to derive
RelativeKeys ==
    {key \in DOMAIN listDict : RelativeOf(key) # "none" /\ listDict[key].list # <<>>}

\* row[i] * reference[i] = value[i] for every value of the series
IsPointwiseQuotient(row, list, reference) ==
    /\ Len(row) = Len(list)
    /\ \A i \in 1..Len(list) :
         /\ row[i].sg = list[i].sg * reference[i].sg
         /\ row[i].n * reference[i].n * list[i].d = list[i].n * row[i].d * reference[i].d

C10_EmptyScaleOmitsScaledRow ==
    [][ReportCalled =>
         /\ \A key \in DOMAIN listDict :
              RowWritten(key, "scaled") => key \in ScaleKeys /\ scale_factor # <<>>
         /\ scale_factor = <<>> =>
              /\ exc' = ""
              /\ TimeLinesWritten.complete
              /\ \A key \in DOMAIN listDict : ~RowWritten(key, "scaled")]_vars

\* the keys registered with a 'norm' entry
NormKeys == {key \in DOMAIN listDict : NormOf(key) # "none"}

\* the normalisation list a key shares
NormList(key) == normalization[NormOf(key)]

\* the per-cycle table report() has just written
SecondsWritten == files'["report_seconds.csv"]

\* row[i] * x = raw[i] for every entry of the raw row
IsDividedBy(row, raw, x) ==
    /\ Len(row) = Len(raw)
    /\ \A i \in 1..Len(raw) :
         /\ row[i].sg = raw[i].sg * x.sg
         /\ row[i].n * x.n * raw[i].d = raw[i].n * row[i].d * x.d

\* no relative reference is too short and the scale factor is filled: the
\* other two ways deriving a row can fail
NoOtherRowFailure ==
    /\ scale_factor # <<>>
    /\ \A key \in RelativeKeys :
         Len(ReferenceList(key)) >= Len(listDict[key].list)

\* C11: a normalisation reference that is declared for a series but holds no
\* value makes report leave out the normalized row of the series in the
\* per-step and in the per-cycle table and record an empty normalized cycle
\* list for it, and raises nothing; a reference that holds a value gives a
\* normalized row to every series with values (per step) and to every series
\* with a cycle column (per cycle), each entry being the raw entry divided by
\* the first value of the reference.
C11_MissingNormOmitsNormalizedRows ==
    [][ReportCalled =>
         /\ NoOtherRowFailure => exc' = "" /\ TimeLinesWritten.complete
         /\ exc' = "" =>
              \A key \in NormKeys :
                IF NormList(key) = <<>>
                THEN /\ "normalized" \notin DOMAIN TimeLinesWritten.rows[key]
                     /\ "normalized" \notin DOMAIN SecondsWritten.rows[key]
                     /\ (listDict[key].list # <<>> \/ key \in SlistKeys) =>
                          /\ "normalized_list_sec" \in DOMAIN listDict'[key]
                          /\ listDict'[key].normalized_list_sec = <<>>
                ELSE /\ listDict[key].list # <<>> =>
                          /\ "normalized" \in DOMAIN TimeLinesWritten.rows[key]
                          /\ IsDividedBy(TimeLinesWritten.rows[key]["normalized"],
                                         listDict[key].list, NormList(key)[1])
                     /\ key \in SlistKeys =>
                          /\ "normalized" \in DOMAIN SecondsWritten.rows[key]
                          /\ IsDividedBy(SecondsWritten.rows[key]["normalized"],
                                         listDict[key].slist, NormList(key)[1])
                          /\ listDict'[key].normalized_list_sec =
                               SecondsWritten.rows[key]["normalized"]]_vars

\* C11 witness: report completed for a problem with empty normalisation
\* factors whose L2 error series holds a non-zero value and a cycle aggregate
C11_Witness ==
    /\ pc = "reported"
    /\ conf.has_analytic_solution
    /\ normalization.vel = <<>>
    /\ \E key \in {"u_L2", "u2L2"} :
         /\ listDict[key].list # <<>>
         /\ listDict[key].list[1] # FromInt(0)
         /\ listDict[key].slist # <<>>
         /\ listDict[key].normalized_list_sec = <<>>
         /\ "normalized" \notin DOMAIN files["report_time_lines.csv"].rows[key]

\* the keys registered with neither 'scale' nor 'norm' nor 'relative'
PlainKeys ==
    {key \in DOMAIN listDict :
       key \notin ScaleKeys /\ NormOf(key) = "none" /\ RelativeOf(key) = "none"}

\* C12: for a series registered with no scale, no normalisation and no
\* relative reference the per-step table holds exactly one row, the raw row
\* with the values of the series, when the series holds at least one value,
\* and no row at all when it holds none.
C12_PlainSeriesHasOnlyRawRow ==
    [][ReportCalled /\ TimeLinesWritten.complete =>
         \A key \in PlainKeys :
           IF listDict[key].list # <<>>
           THEN /\ DOMAIN TimeLinesWritten.rows[key] = {"raw"}
                /\ TimeLinesWritten.rows[key]["raw"] = listDict[key].list
           ELSE DOMAIN TimeLinesWritten.rows[key] = {}]_vars

\* C12 witness: the report holds the raw row alone for the analytic L2 norm
\* and no row for the analytic wall force, which holds no value
C12_Witness ==
    /\ pc = "reported"
    /\ conf.problem_code = "WCYL"
    /\ Len(listDict["av_norm_L2"].list) >= 1
    /\ DOMAIN files["report_time_lines.csv"].rows["av_norm_L2"] = {"raw"}
    /\ listDict["a_force_wall"].list = <<>>
    /\ DOMAIN files["report_time_lines.csv"].rows["a_force_wall"] = {}

\* C13: after 20 complete steps with dt = 0.1 (S = 10), update_time(k*0.1, k)
\* for k = 1..20 and every functional zero, exactly the cycles 1 and 2 are
\* closed and every series that carries cycle aggregates holds exactly two
\* of them, both 0.
C13_TwoZeroAggregatesAfterTwentySteps ==
    (StepComplete /\ Len(time_list) = 20 /\ conf.stepsInSecond = 10) =>
      /\ second_list = <<1, 2>>
      /\ \A key \in DOMAIN listDict \cap SlistKeys :
           listDict[key].slist = <<FromInt(0), FromInt(0)>>

\* the summary report() has just written, with its header
SummaryWritten == files'["report_h.csv"]

\* the last cycle aggregate of the key, 0 when it has none
LastCycle(key) ==
    IF listDict[key].slist = <<>> THEN FromInt(0)
    ELSE listDict[key].slist[Len(listDict[key].slist)]

\* the per-cycle relative row and normalized row report() wrote for a key
\* (empty when it wrote none)
CycleRow(key, row) ==
    IF row \in DOMAIN SecondsWritten.rows[key]
    THEN SecondsWritten.rows[key][row] ELSE <<>>

\* the columns the summary is to hold for the keys, as pairs of column name
\* and value
RECURSIVE ExpectedSummary(_)
ExpectedSummary(keys) ==
    IF keys = <<>> THEN <<>>
    ELSE LET key == Head(keys)
             rel == CycleRow(key, "relative")
             nrm == CycleRow(key, "normalized")
             own ==
               IF key \notin DOMAIN listDict THEN <<>>
               ELSE <<<< <<"last_cycle_", key, "">>, LastCycle(key)>>>>
                    \o (IF rel # <<>>
                        THEN <<<< <<"last_cycle_", key, "r">>, rel[Len(rel)]>>>>
                        ELSE IF key \in {"p", "p2"}
                        THEN <<<< <<"last_cycle_", key, "n">>,
                                  IF nrm # <<>> THEN nrm[Len(nrm)] ELSE FromInt(0)>>>>
                        ELSE <<>>)
         IN own \o ExpectedSummary(Tail(keys))

\* C14: after its three leading columns the summary holds, for each key of
\* the allow-list that is registered and in the order of the allow-list, a
\* last_cycle column with the last cycle aggregate of the series (0 when it
\* has none), followed by the last per-cycle relative value when the series
\* has a non-empty per-cycle relative list, otherwise, for p and p2 only, by
\* the last per-cycle normalized value or 0; the header row and the data row
\* have the same number of columns, and report.csv holds the same data row.
C14_SummaryRow ==
    [][ReportCalled /\ exc' = "" =>
         LET expected == ExpectedSummary(SummaryKeys)
             header == SummaryWritten.header
             data == SummaryWritten.data
         IN /\ Len(header) = Len(data)
            /\ Len(header) = 3 + Len(expected)
            /\ \A i \in 1..Len(expected) :
                 /\ header[3 + i] = expected[i][1]
                 /\ data[3 + i] = expected[i][2]
            /\ files'["report.csv"].data = data]_vars

\* C14 witness: a summary with a relative column for the corrected H1 error
\* and a normalized column for the corrected pressure error, both non-zero
C14_Witness ==
    /\ pc = "reported"
    /\ conf.problem_code = "WCYL"
    /\ \E i, j \in 4..Len(files["report_h.csv"].header) :
         /\ files["report_h.csv"].header[i] = <<"last_cycle_", "u_H1", "r">>
         /\ files["report_h.csv"].data[i] # FromInt(0)
         /\ files["report_h.csv"].header[j] = <<"last_cycle_", "p", "n">>
         /\ files["report_h.csv"].data[j] # FromInt(0)

\* the files of the run a process has written and not removed
StatusFile == ".run"

OkSentinel == "_OK.report"

ReportTables ==
    {"report_time_lines.csv", "report_seconds.csv", "report.csv", "report_h.csv",
     "report_timecontrol.csv"}

FailureSentinels == {n \in DOMAIN files : n \notin ReportTables \cup {StatusFile, OkSentinel}}

\* C15: in a run on several MPI ranks the status file, the report tables,
\* the OK sentinel and the failure sentinel are written by rank 0 only: the
\* process of any other rank writes none of them.
C15_OnlyRankZeroWrites ==
    conf.MPI_rank # 0 => DOMAIN files = {}

\* a call of report_fail is the step taken
ReportFailCalled == pc = "failed" /\ pc' = "fail_reported"

\* C16: in the process of rank 0 a run ends with exactly one terminal
\* sentinel: report() writes the OK sentinel and no failure sentinel,
\* report_fail(t) writes the failure sentinel whose name embeds t as %5.3f
\* and whose content is the trace of the exception, and never the OK
\* sentinel; after either of them no status file exists, whether one had
\* been written or not (its absence raises nothing); before them no
\* sentinel exists.
C16_OneTerminalSentinel ==
    [][conf.MPI_rank = 0 =>
         /\ ReportCalled =>
              /\ exc' = ""
              /\ OkSentinel \in DOMAIN files'
              /\ FailureSentinels' = {}
              /\ StatusFile \notin DOMAIN files'
         /\ ReportFailCalled =>
              /\ exc' = exc /\ exc # ""
              /\ FailureSentinels' =
                   {"_failed_at_" \o Format53(actual_time) \o ".report"}
              /\ \A n \in FailureSentinels' : files'[n].trace = exc
              /\ OkSentinel \notin DOMAIN files'
              /\ StatusFile \notin DOMAIN files'
         /\ pc' \in {"run", "failed"} =>
              OkSentinel \notin DOMAIN files' /\ FailureSentinels' = {}]_vars

\* C16 witness: rank 0 answered a divergence stop in the second step, after
\* a first step that completed, with the sentinel of t = 2.000
C16_Witness ==
    /\ conf.MPI_rank = 0
    /\ pc = "fail_reported"
    /\ Len(time_list) = 2
    /\ DOMAIN files = {"_failed_at_2.000.report"}
    /\ files["_failed_at_2.000.report"].trace = exc
    /\ StopSignalled

\* C17: the failure path of the divergence stop leaves a well-formed partial
\* report of the series collected so far, not only the failure sentinel;
\* and the stop reaches the caller as a reason of its own.
C17_StopLeavesPartialReport ==
    (pc = "fail_reported" /\ StopSignalled) =>
      /\ "report_time_lines.csv" \in DOMAIN files
      /\ files["report_time_lines.csv"].complete

\* the declared plane with the given number
PlaneNumbered(k) ==
    LET planes == Planes(mesh)
    IN planes[CHOOSE i \in 1..Len(planes) : planes[i].number = k]

\* every vertex of the facet lies strictly within the tolerance of plane k
AllVerticesInPlane(f, k) ==
    \A v \in f : InPlane(Point(v, mesh), PlaneNumbered(k), tol)

\* C18: an exterior facet is assigned the id k of a declared plane if and
\* only if every one of its vertices lies strictly within the tolerance of
\* plane k and no plane with a smaller id passes that test for all vertices;
\* so a facet whose vertices all lie within tolerance of plane k is assigned
\* k even when some of them also lie within tolerance of another plane.
C18_FacetInPlaneGetsItsId ==
    mpc = "written" =>
      \A f \in ExteriorFacets : \A k \in 2..5 :
        facet_function[f] = k <=>
          /\ AllVerticesInPlane(f, k)
          /\ \A j \in 2..(k - 1) : ~AllVerticesInPlane(f, j)

\* the ids a classified facet can carry: wall and the declared planes
SubdomainIds == {1} \cup {Planes(mesh)[i].number : i \in 1..Len(Planes(mesh))}

\* at least one vertex of the facet lies within tolerance of none of the
\* planes, or two of its vertices share no plane
MatchesNoPlane(f) == \A k \in 2..5 : ~AllVerticesInPlane(f, k)

\* C19: the classifier never changes the value of an interior facet; when it
\* has finished, every exterior facet carries exactly one id, taken from 1
\* and the declared plane numbers, whatever the facet function held before;
\* a facet that matches no plane carries 1; and the id is the function
\* FacetId of the vertex coordinates, the planes and the tolerance.
C19_EveryExteriorFacetClassified ==
    [][mpc # "off" =>
         /\ \A f \in Facets \ ExteriorFacets : facet_function'[f] = facet_function[f]
         /\ mpc' = "written" =>
              \A f \in ExteriorFacets :
                /\ facet_function'[f] \in SubdomainIds
                /\ MatchesNoPlane(f) => facet_function'[f] = 1
                /\ facet_function'[f] = FacetId(f, mesh, tol)]_vars

\* C19 witness: the classification of the small cube is written, with
\* facets marked 2, 3, 4 and wall, over a facet function that held 0
C19_Witness ==
    /\ mpc = "written"
    /\ mesh = 5
    /\ \A f \in Facets \ ExteriorFacets : facet_function[f] = 0
    /\ \A k \in {1, 2, 3, 4} : \E f \in ExteriorFacets : facet_function[f] = k
    /\ \E f \in ExteriorFacets : MatchesNoPlane(f)

\* the shortest edge of the mesh
MinEdgeLength ==
    CHOOSE l \in {Length(e, mesh) : e \in Edges} :
      \A e \in Edges : ~LessThan(Length(e, mesh), l)

\* C20: the tolerance is the minimum edge length over the whole mesh divided
\* by 10, for every mesh, whatever the magnitude of its edge lengths.
C20_TolIsTenthOfShortestEdge ==
    mpc \in {"facets", "written"} =>
      /\ edge_min = MinEdgeLength
      /\ tol = Quot(MinEdgeLength, FromInt(10))

\* the basis fields are loaded
Loaded == pc # "new"

\* the fields assemble_solution has returned to the solver
Assembled == {i \in 1..Len(returned) : returned[i].from = "assemble_solution"}

\* the field vanishes at the wall node in all three components
ZeroAtWall(sol) == \A component \in 1..3 : sol[component]["wall"] = Value(0, 0)

\* C21: for every time t the analytic velocity at a point on the boundary
\* radius R is exactly zero in all three components, whatever the basis
\* fields hold and whatever the scale factor is.
C21_ZeroOnBoundary ==
    Loaded =>
      /\ ZeroAtWall(solution)
      /\ \A t \in EvaluationTimes : ZeroAtWall(assemble_solution(t))
      /\ \A i \in Assembled : ZeroAtWall(returned[i].sol)

\* a call of assemble_solution from outside the problem is the step taken
AssembleSolutionCalled == Len(returned') > Len(returned)

\* C22: assemble_solution(t) changes no state: the parabolic field, the
\* real and imaginary mode fields, the scale factor and the current solution
\* of the engine stay as they are; its result depends on t only: fields
\* returned for the same t are equal, in whatever order the times were asked
\* for, and equal to the solution the engine assembled for that time.
C22_AssembleSolutionIsPure ==
    [][AssembleSolutionCalled =>
         /\ UNCHANGED <<bessel_parabolic, bessel_real, bessel_complex,
                        scale_factor, solution>>
         /\ \A i, j \in Assembled' :
              returned'[i].t = returned'[j].t => returned'[i].sol = returned'[j].sol
         /\ \A i \in Assembled' :
              returned'[i].t = actual_time => returned'[i].sol = solution]_vars

\* C22 witness: after the engine assembled the solution of t = 0.25, the
\* solver asked for the field of 0.25 and then for the field of the earlier
\* time 0, which differs
C22_Witness ==
    /\ time_list # <<>>
    /\ Len(returned) = 2
    /\ Assembled = {1, 2}
    /\ returned[1].t = actual_time
    /\ returned[1].sol = solution
    /\ returned[2].t = 0
    /\ returned[2].sol # returned[1].sol

\* the frequency index of mode i: -8, -6, -4, -2, 2, 4, 6, 8
FrequencyIndex(i) == IF i <= 4 THEN 2 * i - 10 ELSE 2 * i - 8

\* the modes of the profile: frequency index, real and imaginary field
Modes ==
    [i \in 1..Len(bessel_real) |->
       [frequency_index |-> coefs_exp[i], real |-> bessel_real[i],
        imag |-> bessel_complex[i]]]

\* C23: after the one-time load the profile holds the parabolic field and
\* exactly 8 real and 8 imaginary mode fields, read from the 17 fields
\* parab, real0..real7, imag0..imag7 of the file, mode i paired with
\* frequency index i of (-8, -6, -4, -2, 2, 4, 6, 8); no later operation
\* changes the number or the pairing of the modes.
C23_EightModesPaired ==
    /\ Cardinality(FieldNames) = 17
    /\ Loaded =>
         /\ bessel_parabolic = precomputed["parab"]
         /\ Len(bessel_real) = 8
         /\ Len(bessel_complex) = 8
         /\ Len(coefs_exp) = 8
         /\ Modes = [i \in 1..8 |->
                       [frequency_index |-> FrequencyIndex(i),
                        real |-> precomputed[FieldName("real", i - 1)],
                        imag |-> precomputed[FieldName("imag", i - 1)]]]

\* C23 witness: a run that loaded fields which differ from mode to mode,
\* made a step with all its computations, asked for the analytic velocity
\* and wrote its report
C23_Witness ==
    /\ pc = "reported"
    /\ "err_c" \in done
    /\ Assembled # {}
    /\ Len(bessel_real) = 8
    /\ \A i, j \in 1..8 : i # j => bessel_real[i] # bessel_real[j]
    /\ \A i, j \in 1..8 : bessel_real[i] # bessel_complex[j]

\* C24: the analytic pressure gradient is periodic in time with period 1:
\* evaluated at t and at t + 1 with the same scale factor it gives the same
\* value.
C24_PressureGradientPeriodic ==
    Loaded =>
      \A t \in EvaluationTimes : \A factor \in {1, Factor} :
        analytic_pressure_grad(factor, t + UsPerSecond)
          = analytic_pressure_grad(factor, t)

\* C24 witness: save_pressure has evaluated the gradient at t = 0.25, where
\* it differs from its value at 0 and at 0.5 and equals its value at 1.25
C24_Witness ==
    /\ "p_c" \in done
    /\ actual_time = QuarterUs
    /\ analytic_pressure_grad(Factor, actual_time) # analytic_pressure_grad(Factor, 0)
    /\ analytic_pressure_grad(Factor, actual_time)
         # analytic_pressure_grad(Factor, 2 * QuarterUs)
    /\ analytic_pressure_grad(Factor, actual_time)
         = analytic_pressure_grad(Factor, actual_time + UsPerSecond)

\* C25: in the per-cycle table every series that has a relative row and a
\* cycle-aggregate (raw) row has as many entries in the one as in the other,
\* one per closed second, so both line up with the list of closed seconds;
\* force_wall_normal and force_wall_shear included.
C25_RelativeRowMatchesRawRow ==
    [][ReportCalled /\ SecondsWritten.complete =>
         \A key \in DOMAIN listDict :
           {"raw", "relative"} \subseteq DOMAIN SecondsWritten.rows[key] =>
             /\ Len(SecondsWritten.rows[key]["relative"])
                  = Len(SecondsWritten.rows[key]["raw"])
             /\ Len(SecondsWritten.rows[key]["raw"]) = Len(SecondsWritten.header)]_vars

\* a call of update_time is the step taken, in the time loop
UpdateTimeStep == calls' = calls + 1 /\ done' = {}

\* the analytic-norm reference series
AnalyticNormKeys == {"av_norm_L2", "av_norm_H1", "av_norm_H1w"}

\* the lists that hold one entry per step
StepLists == <<time_list, [key \in AnalyticNormKeys |-> listDict[key].list]>>

\* C26: the list of step times and the series av_norm_L2, av_norm_H1 and
\* av_norm_H1w hold exactly one entry per update_time call made so far: each
\* call appends one entry to each of them and no other call changes them;
\* every error series, targeted at most once per step, is never longer than
\* the list of step times; so no row of the per-step table has more values
\* than the time header has times.
C26_RowsFitTimeHeader ==
    [][/\ IF UpdateTimeStep
          THEN /\ Len(time_list') = Len(time_list) + 1
               /\ \A key \in AnalyticNormKeys :
                    Len(listDict'[key].list) = Len(listDict[key].list) + 1
          ELSE StepLists' = StepLists
       /\ \A key \in AnalyticNormKeys : Len(listDict'[key].list) = Len(time_list')
       /\ \A key \in DOMAIN listDict : Len(listDict'[key].list) <= Len(time_list')
       /\ ReportCalled /\ TimeLinesWritten.complete =>
            /\ TimeLinesWritten.header = time_list
            /\ \A key \in DOMAIN listDict :
                 \A r \in DOMAIN TimeLinesWritten.rows[key] :
                   Len(TimeLinesWritten.rows[key][r]) <= Len(TimeLinesWritten.header)]_vars

\* C26 witness: the report of three steps, in which the raw and the scaled
\* row of the corrected L2 error hold a value for every time of the header,
\* the scaled row followed by its 'scale factor' cell
C26_Witness ==
    /\ pc = "reported"
    /\ conf.doErrControl
    /\ Len(time_list) = 3
    /\ \A key \in AnalyticNormKeys : Len(listDict[key].list) = 3
    /\ LET table == files["report_time_lines.csv"] IN
       /\ table.complete
       /\ Len(table.header) = 3
       /\ Len(table.rows["u_L2"]["raw"]) = 3
       /\ Len(table.rows["u_L2"]["scaled"]) = 3
       /\ Len(table.trailing["u_L2"]["scaled"]) = 1
       /\ table.rows["a_force_wall"]["raw"] # <<>>

\* C27: the analytic velocity is periodic in time with period 1: every mode
\* frequency index is even, so the phases at t + 1 and at t differ by whole
\* multiples of 2 * pi and assemble_solution(t + 1) equals
\* assemble_solution(t), for every t and every content of the basis fields.
C27_VelocityPeriodic ==
    Loaded =>
      /\ \A i \in 1..Len(coefs_exp) : coefs_exp[i] % 2 = 0
      /\ \A t \in EvaluationTimes :
           /\ \A i \in 1..Len(coefs_exp) :
                (Phase(coefs_exp[i], t + UsPerSecond) - Phase(coefs_exp[i], t)) % 8 = 0
           /\ assemble_solution(t + UsPerSecond) = assemble_solution(t)
      /\ \A i, j \in Assembled :
           returned[i].t = returned[j].t + UsPerSecond
             => returned[i].sol = returned[j].sol

\* C27 witness: the solver was handed the fields of t = 0 and of t = 1, which
\* are equal, while the engine's solution of t = 0.25 differs from them
C27_Witness ==
    /\ Len(returned) = 2
    /\ Assembled = {1, 2}
    /\ returned[1].t = 0
    /\ returned[2].t = UsPerSecond
    /\ returned[1].sol = returned[2].sol
    /\ actual_time = QuarterUs
    /\ solution # returned[1].sol
    /\ precomputed = PrecomputedSlip

====
